---------------------------- MODULE Spec2Model ----------------------------
(***************************************************************************)
(* A model of csi-vfs, src/service/service.go: the mount-table resolver    *)
(* (getMountsObj.ScanEntry, getVolumeMountPaths), the volume metadata      *)
(* store (volumeInfo.save/load, service.getVolume, fileExists) and the     *)
(* path configuration (service.BeforeServe).                               *)
(*                                                                         *)
(* Strings are sequences of one-character strings, so that prefix tests,   *)
(* the file-system-type pattern, path.Join/path.Clean and the decimal text *)
(* of an integer are computed character by character as the code does.     *)
(***************************************************************************)
EXTENDS Integers, Sequences, FiniteSets, TLC

VARIABLES
    \* ---- mount-table resolver (one call of getVolumeMountPaths) ----
    table,       \* the host's mount table: a sequence of raw entries
    mpc,         \* position of the call: "idle", "scan", "collect", "done"
    mntDir,      \* argument mntDir
    volumeID,    \* argument volumeID
    pos,         \* number of table entries the scan has consumed
    cache,       \* the scan's resolution cache: MountSource -> Entry
    minfo,       \* the resolved records gathered by the scan
    scanned,     \* per consumed entry, what ScanEntry returned: [info, valid]
    mountPaths,  \* the returned list of paths
    merr,        \* the returned error ("" is nil)
    \* ---- volume store ----
    s,           \* the service struct: bindfs, data, dev, mnt, vol, volGlob
    dirs,        \* directories that exist (canonical paths)
    files,       \* regular files that exist: path -> content (token sequence)
    procs,       \* per caller: the call in flight, its locals and its result
    lastSave,    \* per identifier: the most recent completed save() call
    \* ---- BeforeServe ----
    env,         \* the context's environment: name -> [set, val]
    bpc,         \* position in BeforeServe: "data","dev","mnt","vol","tail","done"
    berr         \* BeforeServe's returned error ("" is nil)

mvars == <<table, mpc, mntDir, volumeID, pos, cache, minfo, scanned, mountPaths, merr>>
svars == <<s, dirs, files, procs, lastSave>>
bvars == <<env, bpc, berr>>
vars == <<mvars, svars, bvars>>

(***************************************************************************)
(* Strings                                                                 *)
(***************************************************************************)
EmptyStr == << >>

UpperChars == <<"A","B","C","D","E","F","G","H","I","J","K","L","M",
                "N","O","P","Q","R","S","T","U","V","W","X","Y","Z">>
LowerChars == <<"a","b","c","d","e","f","g","h","i","j","k","l","m",
                "n","o","p","q","r","s","t","u","v","w","x","y","z">>
DigitChars == <<"0","1","2","3","4","5","6","7","8","9">>

\* Case folding of one character, as the (?i) flag of the pattern does.
FoldChar(c) ==
    IF \E i \in 1..Len(UpperChars) : UpperChars[i] = c
    THEN LowerChars[CHOOSE i \in 1..Len(UpperChars) : UpperChars[i] = c]
    ELSE c

Fold(str) == [i \in 1..Len(str) |-> FoldChar(str[i])]

IsDigit(c) == \E i \in 1..Len(DigitChars) : DigitChars[i] = c

\* strings.HasPrefix
HasPrefix(str, prefix) ==
    /\ Len(str) >= Len(prefix)
    /\ SubSeq(str, 1, Len(prefix)) = prefix

HasSuffix(str, suffix) ==
    /\ Len(str) >= Len(suffix)
    /\ SubSeq(str, Len(str) - Len(suffix) + 1, Len(str)) = suffix

\* sub occurs in str starting at some position
Contains(str, sub) ==
    \E i \in 1..(Len(str) - Len(sub) + 1) : SubSeq(str, i, i + Len(sub) - 1) = sub

(***************************************************************************)
(* path.Clean and path.Join, as the Go library computes them               *)
(***************************************************************************)
Slash == "/"
Dot == "."

\* Drops the last element of the output buffer: after out.w--, the loop
\* "for out.w > dotdot && out.index(out.w) != '/' { out.w-- }", where dropped
\* is the character at out.w (the one just given up).
RECURSIVE BackUp(_, _, _)
BackUp(out, dropped, dotdot) ==
    IF Len(out) > dotdot /\ dropped # Slash
    THEN BackUp(SubSeq(out, 1, Len(out) - 1), out[Len(out)], dotdot)
    ELSE out

\* Index just past the element that starts at r.
RECURSIVE ElemEnd(_, _)
ElemEnd(p, r) ==
    IF r <= Len(p) /\ p[r] # Slash THEN ElemEnd(p, r + 1) ELSE r

\* The loop of path.Clean; r is the (1-based) read index, out the buffer.
RECURSIVE CleanLoop(_, _, _, _, _)
CleanLoop(p, rooted, r, out, dotdot) ==
    LET n == Len(p) IN
    IF r > n THEN out
    ELSE IF p[r] = Slash THEN CleanLoop(p, rooted, r + 1, out, dotdot)
    ELSE IF p[r] = Dot /\ (r = n \/ p[r + 1] = Slash)
         THEN CleanLoop(p, rooted, r + 1, out, dotdot)
    ELSE IF p[r] = Dot /\ p[r + 1] = Dot /\ (r + 1 = n \/ p[r + 2] = Slash)
         THEN IF Len(out) > dotdot
              THEN CleanLoop(p, rooted, r + 2,
                             BackUp(SubSeq(out, 1, Len(out) - 1), out[Len(out)], dotdot),
                             dotdot)
              ELSE IF ~rooted
              THEN LET o2 == (IF Len(out) > 0 THEN Append(out, Slash) ELSE out)
                             \o <<Dot, Dot>>
                   IN  CleanLoop(p, rooted, r + 2, o2, Len(o2))
              ELSE CleanLoop(p, rooted, r + 2, out, dotdot)
    ELSE LET sep == IF (rooted /\ Len(out) # 1) \/ (~rooted /\ Len(out) # 0)
                    THEN Append(out, Slash) ELSE out
             e == ElemEnd(p, r)
         IN  CleanLoop(p, rooted, e, sep \o SubSeq(p, r, e - 1), dotdot)

Clean(p) ==
    IF p = EmptyStr THEN <<Dot>>
    ELSE LET rooted == p[1] = Slash
             out == IF rooted THEN CleanLoop(p, TRUE, 2, <<Slash>>, 1)
                    ELSE CleanLoop(p, FALSE, 1, EmptyStr, 0)
         IN  IF out = EmptyStr THEN <<Dot>> ELSE out

\* The elements joined with '/', empty elements skipped.
RECURSIVE JoinBuf(_, _)
JoinBuf(elems, buf) ==
    IF elems = << >> THEN buf
    ELSE LET e == Head(elems)
             b == IF Len(buf) > 0 THEN buf \o <<Slash>> \o e
                  ELSE e
         IN  JoinBuf(Tail(elems), b)

Join(elems) ==
    LET buf == JoinBuf(elems, EmptyStr)
    IN  IF buf = EmptyStr THEN EmptyStr ELSE Clean(buf)

(***************************************************************************)
(* Mount-table resolver                                                    *)
(***************************************************************************)
\* Longest mount table the scan is given.
MaxEntries == 3

S_slash     == <<"/">>
S_a         == <<"/","a">>
S_b         == <<"/","b">>
S_run       == <<"/","r","u","n">>
S_mnt       == <<"/","m","n","t">>
S_mnt_sl    == <<"/","m","n","t","/">>
S_mnt_vol1  == <<"/","m","n","t","/","v","o","l","1">>
S_published == <<"/","p","u","b","l","i","s","h","e","d","/","x">>
S_subdir    == <<"/","s","u","b","d","i","r">>
S_dev_sda1  == <<"/","d","e","v","/","s","d","a","1">>
S_vol1      == <<"v","o","l","1">>
S_vol2      == <<"v","o","l","2">>
S_none      == <<"n","o","n","e">>
S_tmpfs     == <<"t","m","p","f","s">>
S_ext4      == <<"e","x","t","4">>
S_nfsd      == <<"n","f","s","d">>
S_NFS4      == <<"N","F","S","4">>
S_nfs       == <<"n","f","s">>
S_overlay   == <<"o","v","e","r","l","a","y">>
S_devtmpfs  == <<"d","e","v","t","m","p","f","s">>
S_fuse_dot  == <<"f","u","s","e",".">>
S_fuse_bindfs == <<"f","u","s","e",".","b","i","n","d","f","s">>

\* gofsutil.Entry
Entry(src, point, root, fstype) ==
    [Root |-> root, MountPoint |-> point, MountOpts |-> <<"rw", "relatime">>,
     FSType |-> fstype, MountSource |-> src]

\* The raw entries a mount table is made of.
Entries ==
    { Entry(S_dev_sda1, S_a,         S_slash,  S_ext4),
      Entry(S_dev_sda1, S_b,         S_slash,  S_ext4),
      Entry(S_dev_sda1, S_mnt_vol1,  S_slash,  S_ext4),
      Entry(S_dev_sda1, S_published, S_subdir, S_ext4),
      Entry(S_tmpfs,    S_run,       S_slash,  S_tmpfs),
      Entry(S_none,     S_run,       S_slash,  S_tmpfs),
      Entry(S_none,     S_b,         S_slash,  S_overlay),
      Entry(S_none,     S_a,         S_subdir, S_NFS4),
      Entry(S_nfsd,     S_run,       S_slash,  S_nfsd),
      Entry(S_mnt_vol1, S_b,         S_slash,  S_fuse_bindfs) }

Tables == UNION { [1..n -> Entries] : n \in 0..MaxEntries }

MntDirs == { S_mnt, S_mnt_sl }
VolumeIDs == { S_vol1, S_vol2 }

\* gofsutil.Info, and its zero value
ZeroInfo ==
    [Device |-> EmptyStr, Opts |-> << >>, Path |-> EmptyStr,
     Type |-> EmptyStr, Source |-> EmptyStr]

EmptyCache == [x \in {} |-> ZeroInfo]

\* regexp.MatchString(`(?i)^devtmpfs|(?:fuse\..*)|(?:nfs\d?)|overlay$`, fsType):
\* an alternation of four branches, of which only the first carries ^ and only
\* the last carries $; the match is unanchored otherwise.
MatchFSType(fsType) ==
    LET t == Fold(fsType) IN
    \/ HasPrefix(t, S_devtmpfs)     \* ^devtmpfs
    \/ Contains(t, S_fuse_dot)      \* (?:fuse\..*)
    \/ Contains(t, S_nfs)           \* (?:nfs\d?)
    \/ HasSuffix(t, S_overlay)      \* overlay$

\* lines 313-317: the entry is valid
ValidEntry(entry) ==
    LET validFSType == MatchFSType(entry.FSType)
        sourceHasSlashPrefix == HasPrefix(entry.MountSource, S_slash)
    IN  validFSType \/ sourceHasSlashPrefix

\* A plausible slip: a hit also overwrites the cached entry.
ResolveSourceLatestWins(entry, c) ==
    IF entry.MountSource \in DOMAIN c
    THEN [source |-> Join(<<c[entry.MountSource].MountPoint, entry.Root>>),
          cache |-> [x \in DOMAIN c |-> IF x = entry.MountSource THEN entry ELSE c[x]]]
    ELSE [source |-> entry.MountSource,
          cache |-> [x \in DOMAIN c \cup {entry.MountSource} |->
                        IF x = entry.MountSource THEN entry ELSE c[x]]]

\* A plausible slip: the entry's own mount point is joined, not the cached one.
ResolveSourceOwnPoint(entry, c) ==
    IF entry.MountSource \in DOMAIN c
    THEN [source |-> Join(<<entry.MountPoint, entry.Root>>), cache |-> c]
    ELSE [source |-> entry.MountSource,
          cache |-> [x \in DOMAIN c \cup {entry.MountSource} |->
                        IF x = entry.MountSource THEN entry ELSE c[x]]]

\* lines 337-341: the resolved Source and the cache afterwards
ResolveSource(entry, c) ==
    IF entry.MountSource \in DOMAIN c
    THEN [source |-> Join(<<c[entry.MountSource].MountPoint, entry.Root>>),
          cache |-> c]
    ELSE [source |-> entry.MountSource,
          cache |-> [x \in DOMAIN c \cup {entry.MountSource} |->
                        IF x = entry.MountSource THEN entry ELSE c[x]]]

\* getMountsObj.ScanEntry: (info, valid) and the cache it leaves; failed is nil.
ScanEntry(entry, c) ==
    IF ~ValidEntry(entry)
    THEN [info |-> ZeroInfo, valid |-> FALSE, cache |-> c]
    ELSE LET r == ResolveSource(entry, c) IN
         [info |-> [Device |-> entry.MountSource,
                    Opts   |-> [i \in 1..Len(entry.MountOpts) |-> entry.MountOpts[i]],
                    Path   |-> entry.MountPoint,
                    Type   |-> entry.FSType,
                    Source |-> r.source],
          valid |-> TRUE,
          cache |-> r.cache]

\* A plausible slip: the record's Device is compared, not its resolved Source.
RECURSIVE CollectByDevice(_, _)
CollectByDevice(infos, mntPath) ==
    IF infos = << >> THEN << >>
    ELSE (IF Head(infos).Device = mntPath THEN <<Head(infos).Path>> ELSE << >>)
         \o CollectByDevice(Tail(infos), mntPath)

\* lines 291-297: the loop of getVolumeMountPaths over the resolved records
RECURSIVE CollectPaths(_, _)
CollectPaths(infos, mntPath) ==
    IF infos = << >> THEN << >>
    ELSE (IF Head(infos).Source = mntPath THEN <<Head(infos).Path>> ELSE << >>)
         \o CollectPaths(Tail(infos), mntPath)

\* getVolumeMountPaths is called.
CallGetVolumeMountPaths(dir, id) ==
    /\ mpc = "idle"
    /\ mntDir' = dir
    /\ volumeID' = id
    /\ mpc' = "scan"
    /\ UNCHANGED <<table, pos, cache, minfo, scanned, mountPaths, merr,
                 svars, bvars>>

\* getMounts: the mount table cannot be read; the error is returned as it is.
GetMountsFail ==
    /\ mpc = "scan"
    /\ pos = 0
    /\ merr' = "mount table unreadable"
    /\ mountPaths' = << >>
    /\ mpc' = "done"
    /\ UNCHANGED <<table, mntDir, volumeID, pos, cache, minfo, scanned,
                 svars, bvars>>

\* getMounts: the scan hands the next table entry and the cache to ScanEntry
\* and keeps the record of a valid entry.
ScanStep ==
    /\ mpc = "scan"
    /\ pos < Len(table)
    /\ LET r == ScanEntry(table[pos + 1], cache) IN
        /\ cache' = r.cache
        /\ scanned' = Append(scanned, [info |-> r.info, valid |-> r.valid])
        /\ minfo' = IF r.valid THEN Append(minfo, r.info) ELSE minfo
    /\ pos' = pos + 1
    /\ UNCHANGED <<table, mpc, mntDir, volumeID, mountPaths, merr,
                 svars, bvars>>

\* getMounts returns the records.
ScanDone ==
    /\ mpc = "scan"
    /\ pos = Len(table)
    /\ mpc' = "collect"
    /\ UNCHANGED <<table, mntDir, volumeID, pos, cache, minfo, scanned, mountPaths, merr,
                 svars, bvars>>

\* getVolumeMountPaths collects the paths and returns.
Collect ==
    /\ mpc = "collect"
    /\ mountPaths' = CollectPaths(minfo, Join(<<mntDir, volumeID>>))
    /\ merr' = ""
    /\ mpc' = "done"
    /\ UNCHANGED <<table, mntDir, volumeID, pos, cache, minfo, scanned,
                 svars, bvars>>

(***************************************************************************)
(* The metadata file's text.  A file's content is a sequence of JSON       *)
(* tokens, each a record [k, s]: k is "punct" ({ } : ,), "str" (a quoted   *)
(* string), "num" (a number's text) or "nl" (the line break Encode ends    *)
(* with); s is the token's characters.  Indentation is not modelled.       *)
(***************************************************************************)
Tok(k, str) == [k |-> k, s |-> str]
LBrace == Tok("punct", <<"{">>)
RBrace == Tok("punct", <<"}">>)
Colon  == Tok("punct", <<":">>)
Comma  == Tok("punct", <<",">>)
NewLine == Tok("nl", << >>)

S_capacity_bytes == <<"c","a","p","a","c","i","t","y","_","b","y","t","e","s">>
S_create_request == <<"c","r","e","a","t","e","_","r","e","q","u","e","s","t">>
S_name       == <<"n","a","m","e">>
S_parameters == <<"p","a","r","a","m","e","t","e","r","s">>
\* line 35: infoFileName
infoFileName == <<".","i","n","f","o",".","j","s","o","n">>

\* The decimal text of an integer (the encoder's strconv.AppendInt).
RECURSIVE FormatNat(_)
FormatNat(n) ==
    IF n < 10 THEN <<DigitChars[n + 1]>>
    ELSE Append(FormatNat(n \div 10), DigitChars[(n % 10) + 1])

FormatInt(n) == IF n < 0 THEN <<"-">> \o FormatNat(-n) ELSE FormatNat(n)

DigitValue(c) == (CHOOSE i \in 1..Len(DigitChars) : DigitChars[i] = c) - 1

\* The value of a run of digits (the decoder's strconv.ParseInt).
RECURSIVE ParseNat(_, _)
ParseNat(str, acc) ==
    IF str = << >> THEN acc
    ELSE ParseNat(Tail(str), acc * 10 + DigitValue(Head(str)))

IsIntText(str) ==
    LET d == IF str # << >> /\ Head(str) = "-" THEN Tail(str) ELSE str
    IN  d # << >> /\ \A i \in 1..Len(d) : IsDigit(d[i])

ParseInt(str) ==
    IF Head(str) = "-" THEN 0 - ParseNat(Tail(str), 0) ELSE ParseNat(str, 0)

\* The members of a JSON object whose values are strings: "k":"v", ...
RECURSIVE MapMembers(_, _)
MapMembers(m, keys) ==
    IF keys = {} THEN << >>
    ELSE LET k == CHOOSE x \in keys : TRUE
             rest == MapMembers(m, keys \ {k})
         IN  <<Tok("str", k), Colon, Tok("str", m[k])>>
             \o (IF rest = << >> THEN << >> ELSE <<Comma>> \o rest)

\* lines 174-179: jsonpb.Marshaler{}.Marshal(buf, &v.CreateVolumeRequest).
\* Fields carry their JSON names and a field holding its zero value is left
\* out (EmitDefaults is false).
MarshalRequest(req) ==
    LET name == IF req.Name = EmptyStr THEN << >>
                ELSE <<Tok("str", S_name), Colon, Tok("str", req.Name)>>
        params == IF DOMAIN req.Parameters = {} THEN << >>
                  ELSE <<Tok("str", S_parameters), Colon, LBrace>>
                       \o MapMembers(req.Parameters, DOMAIN req.Parameters)
                       \o <<RBrace>>
        sep == IF name # << >> /\ params # << >> THEN <<Comma>> ELSE << >>
    IN  <<LBrace>> \o name \o sep \o params \o <<RBrace>>

\* volumeInfo.MarshalJSON, lines 173-187
MarshalJSON(v) ==
    <<LBrace, Tok("str", S_capacity_bytes), Colon, Tok("num", FormatInt(v.capacityBytes)),
      Comma, Tok("str", S_create_request), Colon>>
    \o MarshalRequest([Name |-> v.Name, Parameters |-> v.Parameters])
    \o <<RBrace>>

\* json.Encoder.Encode: the value's text and a line break, in one write.
EncodeText(v) == MarshalJSON(v) \o <<NewLine>>

\* Index of the brace closing the object opened before position i (depth
\* braces deep), 0 when the text ends first.
RECURSIVE MatchClose(_, _, _)
MatchClose(toks, i, depth) ==
    IF i > Len(toks) THEN 0
    ELSE IF toks[i] = LBrace THEN MatchClose(toks, i + 1, depth + 1)
    ELSE IF toks[i] = RBrace
         THEN IF depth = 1 THEN i ELSE MatchClose(toks, i + 1, depth - 1)
    ELSE MatchClose(toks, i + 1, depth)

\* Index of the last token of the value that starts at i, 0 when incomplete.
ValueEnd(toks, i) ==
    IF i > Len(toks) THEN 0
    ELSE IF toks[i] = LBrace THEN MatchClose(toks, i + 1, 1)
    ELSE i

\* The members of the object toks (a complete { ... }), from position i:
\* a sequence of [key, val], val the member's value as tokens.
RECURSIVE ObjMembers(_, _)
ObjMembers(toks, i) ==
    IF i >= Len(toks) \/ toks[i].k # "str" THEN << >>
    ELSE LET e == ValueEnd(toks, i + 2)
         IN  <<[key |-> toks[i].s, val |-> SubSeq(toks, i + 2, e)]>>
             \o ObjMembers(toks, e + 2)

HasMember(ms, key) == \E i \in 1..Len(ms) : ms[i].key = key
\* A repeated key: the last one stands.
Member(ms, key) ==
    ms[CHOOSE i \in 1..Len(ms) :
          ms[i].key = key /\ \A j \in (i + 1)..Len(ms) : ms[j].key # key].val

\* A JSON object of strings as a map.
MapOf(toks) ==
    LET ms == ObjMembers(toks, 2)
    IN  [k \in {ms[i].key : i \in 1..Len(ms)} |-> Member(ms, k)[1].s]

IsObject(toks) == toks # << >> /\ toks[1] = LBrace
IsStringMap(toks) ==
    /\ IsObject(toks)
    /\ LET ms == ObjMembers(toks, 2)
       IN  \A i \in 1..Len(ms) : Len(ms[i].val) = 1 /\ ms[i].val[1].k = "str"

\* lines 198-202: jsonpb.Unmarshal(rdr, &v.CreateVolumeRequest).  An empty
\* reader, a value that is no object, an unknown field or a field of the
\* wrong shape is an error.
UnmarshalRequest(raw) ==
    IF ~IsObject(raw) THEN [ok |-> FALSE, Name |-> EmptyStr, Parameters |-> << >>]
    ELSE LET ms == ObjMembers(raw, 2)
             known == \A i \in 1..Len(ms) : ms[i].key \in {S_name, S_parameters}
             nameOk == HasMember(ms, S_name) =>
                          LET x == Member(ms, S_name)
                          IN  Len(x) = 1 /\ x[1].k = "str"
             paramsOk == HasMember(ms, S_parameters) =>
                            IsStringMap(Member(ms, S_parameters))
         IN  IF ~(known /\ nameOk /\ paramsOk)
             THEN [ok |-> FALSE, Name |-> EmptyStr, Parameters |-> << >>]
             ELSE [ok |-> TRUE,
                   Name |-> IF HasMember(ms, S_name)
                            THEN Member(ms, S_name)[1].s ELSE EmptyStr,
                   Parameters |-> IF HasMember(ms, S_parameters)
                                  THEN MapOf(Member(ms, S_parameters))
                                  ELSE << >>]

\* A status error of gRPC code c, and an error that is no status error (its
\* gRPC code is Unknown); cause names what failed.  nil is NoErr.
NoErr == [code |-> "OK", cause |-> ""]
StatusErr(c, cause) == [code |-> c, cause |-> cause]
PlainErr(cause) == [code |-> "Unknown", cause |-> cause]

\* A plausible slip: line 203 forgotten, the capacity is never set.
UnmarshalJSONNoCapacity(v, data) ==
    LET ms == ObjMembers(data, 2)
        req == UnmarshalRequest(IF HasMember(ms, S_create_request)
                                THEN Member(ms, S_create_request) ELSE << >>)
    IN  IF ~IsObject(data) \/ ~req.ok
        THEN [err |-> StatusErr("Internal", "failed to unmarshal"), v |-> v]
        ELSE [err |-> NoErr,
              v |-> [v EXCEPT !.Name = req.Name, !.Parameters = req.Parameters]]

\* volumeInfo.UnmarshalJSON, lines 189-205: the error and the record after.
UnmarshalJSON(v, data) ==
    LET ms == ObjMembers(data, 2)
        capOk == HasMember(ms, S_capacity_bytes) =>
                    LET x == Member(ms, S_capacity_bytes)
                    IN  Len(x) = 1 /\ x[1].k = "num" /\ IsIntText(x[1].s)
    IN  IF ~IsObject(data) \/ ~capOk
        THEN [err |-> StatusErr("Internal", "failed to unmarshal volume"), v |-> v]
        ELSE LET raw == IF HasMember(ms, S_create_request)
                        THEN Member(ms, S_create_request) ELSE << >>
                 req == UnmarshalRequest(raw)
             IN  IF ~req.ok
                 THEN [err |-> StatusErr("Internal", "failed to unmarshal create request"),
                       v |-> v]
                 ELSE [err |-> NoErr,
                       v |-> [v EXCEPT !.Name = req.Name,
                                       !.Parameters = req.Parameters,
                                       !.capacityBytes =
                                           IF HasMember(ms, S_capacity_bytes)
                                           THEN ParseInt(Member(ms, S_capacity_bytes)[1].s)
                                           ELSE 0]]

\* json.Decoder.Decode(&v), line 235: the decoder first reads one complete
\* JSON value from the file and only then hands it to UnmarshalJSON.  A file
\* that ends before a value began is io.EOF, one that ends inside the value
\* is io.ErrUnexpectedEOF; neither is a status error.
Decode(v, content) ==
    LET starts == { i \in 1..Len(content) : content[i] # NewLine }
    IN  IF starts = {} THEN [err |-> PlainErr("EOF"), v |-> v]
        ELSE LET b == CHOOSE i \in starts : \A j \in starts : i <= j
                 e == ValueEnd(content, b)
             IN  IF e = 0 THEN [err |-> PlainErr("unexpected EOF"), v |-> v]
                 ELSE UnmarshalJSON(v, SubSeq(content, b, e))

(***************************************************************************)
(* Volume store: volumeInfo.save, volumeInfo.load, service.getVolume       *)
(***************************************************************************)
S_root    == <<"/">>
S_d       == <<"/","d">>
S_d_dev   == <<"/","d","/","d","e","v">>
S_d_mnt   == <<"/","d","/","m","n","t">>
S_d_vol   == <<"/","d","/","v","o","l">>
S_star    == <<"*">>
S_bindfs  == <<"b","i","n","d","f","s">>
S_k       == <<"k">>
S_v       == <<"v">>

\* The callers of the store, the volume identifiers they use, and the
\* capacities and creation parameters they save.
Procs == {"p1", "p2"}
Ids == {S_vol1, S_vol2}
SavedValues ==
    { [cap |-> 0, params |-> << >>],
      [cap |-> 42, params |-> [x \in {S_k} |-> S_v]] }

\* The zero value of volumeInfo (lines 158-163)
ZeroVol ==
    [Name |-> EmptyStr, Parameters |-> << >>, capacityBytes |-> 0,
     path |-> EmptyStr, infoPath |-> EmptyStr]

\* A caller with no call in flight.  op is the operation called, id the
\* identifier it is about, v the record it works on, err its error, ret
\* whether getVolume returned the record, loaded whether load() was entered,
\* stat the error of its last os.Stat, sys the file-system calls it made.
IdleProc ==
    [pc |-> "idle", op |-> "", id |-> EmptyStr, v |-> ZeroVol, err |-> NoErr,
     ret |-> FALSE, loaded |-> FALSE, stat |-> "", sys |-> 0]

NoSave == [state |-> "none", cap |-> 0, params |-> << >>]

\* The directory part of a path: all before its last slash.
RECURSIVE LastSlash(_, _)
LastSlash(p, i) == IF i = 0 \/ p[i] = Slash THEN i ELSE LastSlash(p, i - 1)

DirOf(p) ==
    LET i == LastSlash(p, Len(p))
    IN  IF i = 0 THEN <<Dot>> ELSE IF i = 1 THEN <<Slash>> ELSE SubSeq(p, 1, i - 1)

\* line 241: volPath := path.Join(s.vol, idOrName)
VolPathOf(id) == Join(<<s.vol, id>>)

\* A plausible slip: the identifier is left out of the info file's path.
InfoPathSharedFile(id) == Join(<<s.vol, infoFileName>>)

\* line 250: volInfoPath := path.Join(volPath, infoFileName)
InfoPathOf(id) == Join(<<VolPathOf(id), infoFileName>>)

Exists(path) == path \in dirs \/ path \in DOMAIN files

\* What os.Stat, os.Open or os.Create of a path may answer: "" (no error),
\* ENOENT when it is missing, and EACCES whenever the host denies access.
StatErrors(path) == (IF Exists(path) THEN {""} ELSE {"ENOENT"}) \cup {"EACCES"}
OpenErrors(path) == (IF path \in DOMAIN files THEN {""} ELSE {"ENOENT"}) \cup {"EACCES"}
CreateErrors(path) == (IF DirOf(path) \in dirs THEN {""} ELSE {"ENOENT"}) \cup {"EACCES"}
\* Failures the host injects, as opposed to a missing file or directory.
HostFaults == {"EACCES", "ENOSPC"}

\* A plausible slip: a missing path is reported as existing.
FileExistsMissingIsTrue(statErr) ==
    IF statErr = "" \/ statErr = "ENOENT" THEN [ok |-> TRUE, err |-> ""]
    ELSE [ok |-> FALSE, err |-> statErr]

\* fileExists, lines 270-279, given the error of os.Stat
FileExists(statErr) ==
    IF statErr = "" THEN [ok |-> TRUE, err |-> ""]
    ELSE IF statErr = "ENOENT" THEN [ok |-> FALSE, err |-> ""]
    ELSE [ok |-> FALSE, err |-> statErr]

\* The callers serialise their calls per identifier: a call about id begins
\* only when no other call about id is in flight.
Busy(id) == \E q \in Procs : procs[q].pc # "idle" /\ procs[q].id = id

\* The content read through an open file.  A call reads only its own
\* identifier's file, which no other call removes meanwhile.
ReadFile(path) == IF path \in DOMAIN files THEN files[path] ELSE << >>

WriteFile(path, content) ==
    [x \in DOMAIN files \cup {path} |-> IF x = path THEN content ELSE files[x]]

\* Where a write that fails may have stopped: nothing written, half of the
\* text, all but the final line break.
CutPoints(content) == {0, Len(content) \div 2, Len(content) - 1}

\* save() is called on a record; bound: the record has its directory.
\* lines 208-211: an empty infoPath fails before any file is touched.
SaveCall(p, id, val, bound) ==
    /\ procs[p].pc = "idle"
    /\ bound => ~Busy(id)
    /\ LET v == [Name |-> id, Parameters |-> val.params, capacityBytes |-> val.cap,
                 path |-> IF bound THEN VolPathOf(id) ELSE EmptyStr,
                 infoPath |-> IF bound THEN InfoPathOf(id) ELSE EmptyStr]
           call == [IdleProc EXCEPT !.op = "save", !.v = v,
                                    !.id = IF bound THEN id ELSE EmptyStr]
       IN  procs' = [procs EXCEPT ![p] =
              IF v.infoPath = EmptyStr
              THEN [call EXCEPT !.pc = "done",
                       !.err = StatusErr("Internal", "empty path")]
              ELSE [call EXCEPT !.pc = "save_create"]]
    /\ UNCHANGED <<s, dirs, files, lastSave, mvars, bvars>>

\* lines 212-216: os.Create creates or truncates the file.
SaveCreate(p) ==
    /\ procs[p].pc = "save_create"
    /\ \E e \in CreateErrors(procs[p].v.infoPath) :
        IF e # ""
        THEN /\ procs' = [procs EXCEPT ![p].pc = "done", ![p].sys = @ + 1,
                                       ![p].err = StatusErr("Internal", e)]
             /\ UNCHANGED files
        ELSE /\ procs' = [procs EXCEPT ![p].pc = "save_encode", ![p].sys = @ + 1]
             /\ files' = WriteFile(procs[p].v.infoPath, << >>)
    /\ UNCHANGED <<s, dirs, lastSave, mvars, bvars>>

\* lines 218-220: return enc.Encode(&v).  The text is written in one write;
\* a write that fails leaves part of it and its error is returned as it is.
SaveEncode(p) ==
    /\ procs[p].pc = "save_encode"
    /\ LET text == EncodeText(procs[p].v)
           path == procs[p].v.infoPath
       IN  \/ /\ files' = WriteFile(path, text)
              /\ procs' = [procs EXCEPT ![p].pc = "save_close", ![p].sys = @ + 1]
           \/ \E n \in CutPoints(text) :
              /\ files' = WriteFile(path, SubSeq(text, 1, n))
              /\ procs' = [procs EXCEPT ![p].pc = "save_close", ![p].sys = @ + 1,
                                        ![p].err = PlainErr("ENOSPC")]
    /\ UNCHANGED <<s, dirs, lastSave, mvars, bvars>>

\* line 217: the deferred f.Close(); save returns.
SaveClose(p) ==
    /\ procs[p].pc = "save_close"
    /\ procs' = [procs EXCEPT ![p].pc = "done", ![p].sys = @ + 1]
    /\ lastSave' = [lastSave EXCEPT ![procs[p].id] =
                      [state |-> IF procs[p].err = NoErr THEN "ok" ELSE "failed",
                       cap |-> procs[p].v.capacityBytes,
                       params |-> procs[p].v.Parameters]]
    /\ UNCHANGED <<s, dirs, files, mvars, bvars>>

\* getVolume(idOrName) is called.
GetVolumeCall(p, id) ==
    /\ procs[p].pc = "idle"
    /\ ~Busy(id)
    /\ procs' = [procs EXCEPT ![p] =
                   [IdleProc EXCEPT !.pc = "gv_stat_dir", !.op = "getVolume", !.id = id]]
    /\ UNCHANGED <<s, dirs, files, lastSave, mvars, bvars>>

\* lines 241-247: the volume's directory must exist.
GvStatDir(p) ==
    /\ procs[p].pc = "gv_stat_dir"
    /\ \E e \in StatErrors(VolPathOf(procs[p].id)) :
        LET r == FileExists(e) IN
        procs' = [procs EXCEPT ![p] =
           IF ~r.ok
           THEN [@ EXCEPT !.pc = "done", !.stat = e, !.sys = @ + 1,
                    !.err = IF r.err # "" THEN StatusErr("NotFound", r.err)
                            ELSE StatusErr("NotFound", "does not exist")]
           ELSE [@ EXCEPT !.pc = "gv_stat_info", !.stat = e, !.sys = @ + 1]]
    /\ UNCHANGED <<s, dirs, files, lastSave, mvars, bvars>>

\* lines 250-263: the info file must exist; then a new record is bound to the
\* directory and the file, and load() is called on it.
GvStatInfo(p) ==
    /\ procs[p].pc = "gv_stat_info"
    /\ \E e \in StatErrors(InfoPathOf(procs[p].id)) :
        LET r == FileExists(e) IN
        procs' = [procs EXCEPT ![p] =
           IF ~r.ok
           THEN [@ EXCEPT !.pc = "done", !.stat = e, !.sys = @ + 1,
                    !.err = IF r.err # "" THEN StatusErr("NotFound", r.err)
                            ELSE StatusErr("NotFound", "does not exist")]
           ELSE [@ EXCEPT !.pc = "load_open", !.stat = e, !.sys = @ + 1,
                    !.loaded = TRUE,
                    !.v = [ZeroVol EXCEPT !.path = VolPathOf(procs[p].id),
                                          !.infoPath = InfoPathOf(procs[p].id)]]]
    /\ UNCHANGED <<s, dirs, files, lastSave, mvars, bvars>>

\* load() is called on a fresh record; bound: the record has its directory.
LoadCall(p, id, bound) ==
    /\ procs[p].pc = "idle"
    /\ bound => ~Busy(id)
    /\ procs' = [procs EXCEPT ![p] =
          [IdleProc EXCEPT !.pc = "load_open", !.op = "load", !.loaded = TRUE,
              !.id = IF bound THEN id ELSE EmptyStr,
              !.v = IF bound
                    THEN [ZeroVol EXCEPT !.path = VolPathOf(id),
                                         !.infoPath = InfoPathOf(id)]
                    ELSE ZeroVol]]
    /\ UNCHANGED <<s, dirs, files, lastSave, mvars, bvars>>

\* lines 224-232: an empty infoPath fails before any file is touched;
\* otherwise os.Open.
LoadOpen(p) ==
    /\ procs[p].pc = "load_open"
    /\ IF procs[p].v.infoPath = EmptyStr
       THEN procs' = [procs EXCEPT ![p].pc = "done",
                                   ![p].err = StatusErr("Internal", "empty path")]
       ELSE \E e \in OpenErrors(procs[p].v.infoPath) :
               procs' = [procs EXCEPT ![p] =
                  IF e # ""
                  THEN [@ EXCEPT !.pc = "done", !.sys = @ + 1,
                           !.err = StatusErr("Internal", e)]
                  ELSE [@ EXCEPT !.pc = "load_decode", !.sys = @ + 1]]
    /\ UNCHANGED <<s, dirs, files, lastSave, mvars, bvars>>

\* lines 234-235: return dec.Decode(&v)
LoadDecode(p) ==
    /\ procs[p].pc = "load_decode"
    /\ LET r == Decode(procs[p].v, ReadFile(procs[p].v.infoPath))
       IN  procs' = [procs EXCEPT ![p].pc = "load_close", ![p].sys = @ + 1,
                                  ![p].err = r.err, ![p].v = r.v]
    /\ UNCHANGED <<s, dirs, files, lastSave, mvars, bvars>>

\* line 233: the deferred f.Close(); load returns, and getVolume returns the
\* record unless load failed (lines 261-265).
LoadClose(p) ==
    /\ procs[p].pc = "load_close"
    /\ procs' = [procs EXCEPT ![p].pc = "done", ![p].sys = @ + 1,
                    ![p].ret = (procs[p].op = "getVolume" /\ procs[p].err = NoErr)]
    /\ UNCHANGED <<s, dirs, files, lastSave, mvars, bvars>>

\* The caller takes the result.
Return(p) ==
    /\ procs[p].pc = "done"
    /\ procs' = [procs EXCEPT ![p] = IdleProc]
    /\ UNCHANGED <<s, dirs, files, lastSave, mvars, bvars>>

\* A volume's directory is made (the volume is provisioned).
MkVolDir(id) ==
    /\ ~Busy(id)
    /\ VolPathOf(id) \notin dirs
    /\ dirs' = dirs \cup {VolPathOf(id)}
    /\ UNCHANGED <<s, files, procs, lastSave, mvars, bvars>>

\* A volume's directory is removed with what it holds (the volume is deleted).
RemoveVol(id) ==
    /\ ~Busy(id)
    /\ VolPathOf(id) \in dirs
    /\ dirs' = dirs \ {VolPathOf(id)}
    /\ files' = [x \in DOMAIN files \ {InfoPathOf(id)} |-> files[x]]
    /\ lastSave' = [lastSave EXCEPT ![id] = NoSave]
    /\ UNCHANGED <<s, procs, mvars, bvars>>

(***************************************************************************)
(* service.BeforeServe, lines 60-156                                       *)
(***************************************************************************)
S_h        == <<"/","h">>
S_u        == <<"/","u">>
S_l        == <<"/","l">>
S_l_sl     == <<"/","l","/">>
S_l_dev    == <<"/","l","/","d","e","v">>
S_l_vol    == <<"/","l","/","v","o","l">>
S_m        == <<"/","m">>
S_csi_vfs  == <<".","c","s","i","-","v","f","s">>
S_dev      == <<"d","e","v">>
S_mntname  == <<"m","n","t">>
S_vol      == <<"v","o","l">>
S_bindfs2  == <<"b","i","n","d","f","s","2">>

\* The zero value of the service struct (lines 46-58)
ZeroService ==
    [bindfs |-> EmptyStr, data |-> EmptyStr, dev |-> EmptyStr,
     mnt |-> EmptyStr, vol |-> EmptyStr, volGlob |-> EmptyStr]

\* The host has one symbolic link, /l, which points to /d.
ThroughLink(p) == p = S_l \/ HasPrefix(p, S_l_sl)
Resolve(p) ==
    IF ThroughLink(p) THEN Clean(S_d \o SubSeq(p, Len(S_l) + 1, Len(p))) ELSE Clean(p)

\* A directory path and the directories above it.
RECURSIVE Ancestors(_)
Ancestors(p) == IF Len(p) <= 1 THEN {p} ELSE {p} \cup Ancestors(DirOf(p))

\* What os.MkdirAll(p, 0755) may answer: it fails on the empty path and
\* through a link whose target is missing, and whenever the host denies it.
MkdirAllErrors(p) ==
    (IF p = EmptyStr \/ (ThroughLink(p) /\ S_d \notin dirs) THEN {"ENOENT"} ELSE {""})
    \cup {"EACCES"}
\* What gofsutil.EvalSymlinks may answer for a directory that exists.
EvalSymlinksErrors == {"", "EACCES"}

\* csictx.LookupEnv(ctx, name): (value, ok)
LookupEnv(name) == env[name]

\* lines 77-83: the data directory's default
DataDefault ==
    IF LookupEnv("HOME").val # EmptyStr
    THEN Join(<<LookupEnv("HOME").val, S_csi_vfs>>)
    ELSE IF LookupEnv("USER_PROFILE").val # EmptyStr
    THEN Join(<<LookupEnv("USER_PROFILE").val, S_csi_vfs>>)
    ELSE EmptyStr

\* One directory of BeforeServe: the override or the default, os.MkdirAll,
\* then gofsutil.EvalSymlinks, which stores the resolved path.
ConfigureDir(here, next, field, envName, default) ==
    /\ bpc = here
    /\ LET v0 == IF LookupEnv(envName).set THEN LookupEnv(envName).val ELSE s[field]
           v1 == IF v0 = EmptyStr THEN default ELSE v0
       IN  \E me \in MkdirAllErrors(v1) :
             IF me # ""
             THEN /\ s' = [s EXCEPT ![field] = v1]
                  /\ berr' = me
                  /\ bpc' = "done"
                  /\ UNCHANGED dirs
             ELSE /\ dirs' = dirs \cup Ancestors(Resolve(v1))
                  /\ \E se \in EvalSymlinksErrors :
                       IF se # ""
                       THEN /\ s' = [s EXCEPT ![field] = v1]
                            /\ berr' = se
                            /\ bpc' = "done"
                       ELSE /\ s' = [s EXCEPT ![field] = Resolve(v1)]
                            /\ berr' = ""
                            /\ bpc' = next
    /\ UNCHANGED <<env, files, procs, lastSave, mvars>>

\* lines 74-89
BsData == ConfigureDir("data", "dev", "data", "EnvVarDataDir", DataDefault)
\* lines 91-102
BsDev == ConfigureDir("dev", "mnt", "dev", "EnvVarDevDir", Join(<<s.data, S_dev>>))
\* lines 104-115
BsMnt == ConfigureDir("mnt", "vol", "mnt", "EnvVarMntDir", Join(<<s.data, S_mntname>>))
\* lines 117-129
BsVol == ConfigureDir("vol", "tail", "vol", "EnvVarVolDir", Join(<<s.data, S_vol>>))

\* lines 131-137: the volume glob.  The override is stored in s.vol.
VolGlobFields(sv) ==
    LET a == IF LookupEnv("EnvVarVolGlob").set
             THEN [sv EXCEPT !.vol = LookupEnv("EnvVarVolGlob").val] ELSE sv
        b == IF a.volGlob = EmptyStr THEN [a EXCEPT !.volGlob = S_star] ELSE a
    IN  [b EXCEPT !.volGlob = Join(<<b.vol, b.volGlob, infoFileName>>)]

\* lines 139-144: the bind-mount tool
BindFSFields(sv) ==
    LET a == IF LookupEnv("EnvVarBindFS").set
             THEN [sv EXCEPT !.bindfs = LookupEnv("EnvVarBindFS").val] ELSE sv
    IN  IF a.bindfs = EmptyStr THEN [a EXCEPT !.bindfs = S_bindfs] ELSE a

\* lines 131-155: the glob, the tool, the interceptor; BeforeServe returns nil.
BsTail ==
    /\ bpc = "tail"
    /\ s' = BindFSFields(VolGlobFields(s))
    /\ berr' = ""
    /\ bpc' = "done"
    /\ UNCHANGED <<env, dirs, files, procs, lastSave, mvars>>

(***************************************************************************)
(* Specifications                                                          *)
(***************************************************************************)
EnvVar(isSet, val) == [set |-> isSet, val |-> val]
Unset == EnvVar(FALSE, EmptyStr)

\* The environments BeforeServe is started in.
Envs ==
    { [n \in {"EnvVarDataDir", "EnvVarDevDir", "EnvVarMntDir", "EnvVarVolDir",
              "EnvVarVolGlob", "EnvVarBindFS", "HOME", "USER_PROFILE"} |->
         CASE n = "EnvVarDataDir" -> dataV
           [] n = "EnvVarDevDir"  -> devV
           [] n = "EnvVarMntDir"  -> mntV
           [] n = "EnvVarVolDir"  -> volV
           [] n = "EnvVarVolGlob" -> globV
           [] n = "EnvVarBindFS"  -> bindV
           [] n = "HOME"          -> homeV
           [] OTHER               -> profV ] :
      dataV \in {Unset, EnvVar(TRUE, S_d), EnvVar(TRUE, S_l)},
      devV  \in {Unset, EnvVar(TRUE, S_l_dev)},
      mntV  \in {Unset, EnvVar(TRUE, S_m)},
      volV  \in {Unset, EnvVar(TRUE, S_l_vol)},
      globV \in {Unset, EnvVar(TRUE, S_star)},
      bindV \in {Unset, EnvVar(TRUE, S_bindfs2)},
      homeV \in {Unset, EnvVar(TRUE, S_h)},
      profV \in {Unset, EnvVar(TRUE, S_u)} }

\* The environment and the service after a start with only the data
\* directory overridden (to /d).
ServedEnv ==
    [n \in {"EnvVarDataDir", "EnvVarDevDir", "EnvVarMntDir", "EnvVarVolDir",
            "EnvVarVolGlob", "EnvVarBindFS", "HOME", "USER_PROFILE"} |->
        IF n = "EnvVarDataDir" THEN EnvVar(TRUE, S_d) ELSE Unset]
ServedService ==
    [bindfs |-> S_bindfs, data |-> S_d, dev |-> S_d_dev, mnt |-> S_d_mnt,
     vol |-> S_d_vol, volGlob |-> Join(<<S_d_vol, S_star, infoFileName>>)]
ServedDirs == {S_root, S_d, S_d_dev, S_d_mnt, S_d_vol}

MountsIdle ==
    /\ mpc = "idle" /\ mntDir = EmptyStr /\ volumeID = EmptyStr /\ pos = 0
    /\ cache = EmptyCache /\ minfo = << >> /\ scanned = << >>
    /\ mountPaths = << >> /\ merr = ""
StoreIdle ==
    /\ files = [x \in {} |-> << >>]
    /\ procs = [p \in Procs |-> IdleProc]
    /\ lastSave = [id \in Ids |-> NoSave]
Served ==
    /\ env = ServedEnv /\ bpc = "done" /\ berr = ""
    /\ s = ServedService /\ dirs = ServedDirs

\* The mount-table resolver: one call of getVolumeMountPaths on any table.
InitMounts == table \in Tables /\ MountsIdle /\ StoreIdle /\ Served
NextMounts ==
    \/ \E dir \in MntDirs, id \in VolumeIDs : CallGetVolumeMountPaths(dir, id)
    \/ GetMountsFail
    \/ ScanStep
    \/ ScanDone
    \/ Collect
SpecMounts == InitMounts /\ [][NextMounts]_vars

\* The volume store after a start: callers save, load and look up volumes.
InitStore == table = << >> /\ MountsIdle /\ StoreIdle /\ Served
NextStore ==
    \/ \E p \in Procs, id \in Ids, val \in SavedValues, bound \in BOOLEAN :
         SaveCall(p, id, val, bound)
    \/ \E p \in Procs : SaveCreate(p)
    \/ \E p \in Procs : SaveEncode(p)
    \/ \E p \in Procs : SaveClose(p)
    \/ \E p \in Procs, id \in Ids : GetVolumeCall(p, id)
    \/ \E p \in Procs : GvStatDir(p)
    \/ \E p \in Procs : GvStatInfo(p)
    \/ \E p \in Procs, id \in Ids, bound \in BOOLEAN : LoadCall(p, id, bound)
    \/ \E p \in Procs : LoadOpen(p)
    \/ \E p \in Procs : LoadDecode(p)
    \/ \E p \in Procs : LoadClose(p)
    \/ \E p \in Procs : Return(p)
    \/ \E id \in Ids : MkVolDir(id)
    \/ \E id \in Ids : RemoveVol(id)
SpecStore == InitStore /\ [][NextStore]_vars

\* The start of the plugin: BeforeServe in any environment.
InitServe ==
    /\ table = << >> /\ MountsIdle /\ StoreIdle
    /\ env \in Envs
    /\ s = ZeroService
    /\ dirs \in {{S_root}, {S_root, S_d}}
    /\ bpc = "data" /\ berr = ""
NextServe == BsData \/ BsDev \/ BsMnt \/ BsVol \/ BsTail
SpecServe == InitServe /\ [][NextServe]_vars

(***************************************************************************)
(* Properties of the mount-table resolver (under SpecMounts)               *)
(***************************************************************************)
Kept(i) == scanned[i].valid
SameSource(i, j) == table[i].MountSource = table[j].MountSource
\* The first entry of the table with the source of entry i
FirstInTable(i) ==
    CHOOSE f \in 1..i : SameSource(f, i) /\ \A g \in 1..(f - 1) : ~SameSource(g, i)
\* The first entry with the source of entry i that the scan kept (i is kept)
FirstKept(i) ==
    CHOOSE f \in 1..i :
        SameSource(f, i) /\ Kept(f) /\ \A g \in 1..(f - 1) : ~(SameSource(g, i) /\ Kept(g))
ScanOver == mpc \in {"collect", "done"} /\ pos = Len(table)

\* C1 as stated: the anchor of a source is the first entry of the table with
\* that source: it resolves to the source unchanged, every later entry with
\* the source resolves to join(anchor.MountPoint, entry.Root), and the cache
\* holds the anchor.
C1_FirstInTableAnchors ==
    \A i \in 1..Len(scanned) : Kept(i) =>
        LET f == FirstInTable(i) IN
        /\ i = f => scanned[i].info.Source = table[i].MountSource
        /\ i > f => scanned[i].info.Source = Join(<<table[f].MountPoint, table[i].Root>>)
        /\ table[i].MountSource \in DOMAIN cache
        /\ cache[table[i].MountSource] = table[f]

\* C1, amended: the anchor of a source is the first entry with that source
\* that the scan keeps.  At every point of the scan the anchor's resolved
\* Source is the source unchanged, every later kept entry with the source
\* resolves to join(anchor.MountPoint, entry.Root), and the cache holds
\* exactly the anchors.
C1_FirstKeptAnchors ==
    /\ \A i \in 1..Len(scanned) : Kept(i) =>
        LET f == FirstKept(i) IN
        /\ i = f => scanned[i].info.Source = table[i].MountSource
        /\ i > f => scanned[i].info.Source = Join(<<table[f].MountPoint, table[i].Root>>)
        /\ cache[table[i].MountSource] = table[f]
    /\ DOMAIN cache = { table[i].MountSource : i \in {j \in 1..Len(scanned) : Kept(j)} }

\* C1's case: three kept entries of one source, the first two mounted at
\* different points, and the third resolved against the first.
C1_Witness ==
    /\ ScanOver
    /\ \E i, j, k \in 1..Len(scanned) :
        /\ i < j /\ j < k
        /\ Kept(i) /\ Kept(j) /\ Kept(k)
        /\ SameSource(i, j) /\ SameSource(j, k)
        /\ table[i].MountPoint # table[j].MountPoint
        /\ scanned[k].info.Source = Join(<<table[i].MountPoint, table[k].Root>>)
        /\ scanned[k].info.Source # Join(<<table[j].MountPoint, table[k].Root>>)

\* C2 as stated: of two kept entries with one source and root "/", the first
\* of the table with that source mounted at A and the second at B, both
\* records resolve to A.
C2_BothResolveToFirstPoint ==
    \A i, j \in 1..Len(scanned) :
        (/\ i < j /\ Kept(i) /\ Kept(j) /\ SameSource(i, j)
         /\ FirstInTable(j) = i
         /\ table[i].MountPoint # table[j].MountPoint
         /\ table[i].Root = S_slash /\ table[j].Root = S_slash)
        => /\ scanned[i].info.Source = table[i].MountPoint
           /\ scanned[j].info.Source = table[i].MountPoint

\* C2, amended: the second record resolves to A, the first entry's mount
\* point; the first record keeps the raw source string.
C2_SecondResolvesToFirstPoint ==
    \A i, j \in 1..Len(scanned) :
        (/\ i < j /\ Kept(i) /\ Kept(j) /\ SameSource(i, j)
         /\ FirstKept(j) = i
         /\ table[i].Root = S_slash /\ table[j].Root = S_slash)
        => /\ scanned[i].info.Source = table[i].MountSource
           /\ scanned[j].info.Source = table[i].MountPoint

\* C2's case: /dev/sda1 at /a, then /dev/sda1 at /b, both with root "/".
C2_Witness ==
    /\ ScanOver
    /\ \E i, j \in 1..Len(scanned) :
        /\ i < j /\ Kept(i) /\ Kept(j) /\ SameSource(i, j) /\ FirstKept(j) = i
        /\ table[i].Root = S_slash /\ table[j].Root = S_slash
        /\ table[i].MountSource = S_dev_sda1
        /\ table[i].MountPoint = S_a /\ table[j].MountPoint = S_b
        /\ scanned[j].info.Source = S_a

\* The records whose resolved Source is the volume's mount path
Matching == { i \in 1..Len(minfo) : minfo[i].Source = Join(<<mntDir, volumeID>>) }

\* C3: when the mount table was retrieved, the returned list holds the Path
\* of every record whose resolved Source is join(mntDir, volumeID), once per
\* such record, and nothing else; with no such record it is empty, and the
\* error is nil.
C3_PathsOfMatchingRecords ==
    (mpc = "done" /\ merr = "") =>
        /\ Len(mountPaths) = Cardinality(Matching)
        /\ \A p \in {minfo[i].Path : i \in 1..Len(minfo)}
                    \cup {mountPaths[k] : k \in 1..Len(mountPaths)} :
              Cardinality({k \in 1..Len(mountPaths) : mountPaths[k] = p})
                = Cardinality({i \in Matching : minfo[i].Path = p})
        /\ Matching = {} => mountPaths = << >>

\* C3's case: a query answered with a path whose record matched through the
\* cache (its Device is not the queried path), other records left out.
C3_Witness ==
    /\ mpc = "done" /\ merr = ""
    /\ Len(mountPaths) >= 1
    /\ Len(minfo) > Len(mountPaths)
    /\ \E i \in Matching : minfo[i].Device # minfo[i].Source

\* The relevant types as C4 names them: devtmpfs, a fuse.* type, nfs or nfs
\* and a digit, overlay, whatever the case of the letters.
IsRelevantType(fsType) ==
    LET t == Fold(fsType) IN
    \/ t = S_devtmpfs
    \/ HasPrefix(t, S_fuse_dot)
    \/ t = S_nfs
    \/ (Len(t) = 4 /\ HasPrefix(t, S_nfs) /\ IsDigit(t[4]))
    \/ t = S_overlay

\* C4: an entry is kept if and only if its type is a relevant type or its
\* source begins with "/"; a dropped entry yields no record and does not
\* enter the cache.
C4_KeptIffRelevant ==
    \A i \in 1..Len(scanned) :
        /\ Kept(i) <=> (IsRelevantType(table[i].FSType)
                          \/ HasPrefix(table[i].MountSource, S_slash))
        /\ ~Kept(i) => scanned[i].info = ZeroInfo
        /\ (\A j \in 1..Len(scanned) : SameSource(i, j) => ~Kept(j))
              => table[i].MountSource \notin DOMAIN cache

(***************************************************************************)
(* Properties of the volume store (under SpecStore)                        *)
(***************************************************************************)
Done(p, op) == procs[p].pc = "done" /\ procs[p].op = op
\* The call failed only if the host failed one of its file-system calls.
NoErrUnlessHostFault(p) ==
    procs[p].err = NoErr \/ procs[p].err.cause \in HostFaults

\* C5: once the most recent save() that wrote an identifier's info file has
\* succeeded, a load() on a fresh record bound to that file (directly or in
\* getVolume) fails only if the host fails it, and otherwise yields the
\* capacity and the parameters of that save(); getVolume returns the record
\* with path = join(s.vol, id) and infoPath = join(path, ".info.json").
C5_LoadYieldsLastSave ==
    \A p \in Procs :
        (/\ procs[p].pc = "done"
         /\ procs[p].op \in {"load", "getVolume"}
         /\ procs[p].id \in Ids
         /\ lastSave[procs[p].id].state = "ok")
        => /\ NoErrUnlessHostFault(p)
           /\ procs[p].err = NoErr =>
               /\ procs[p].v.capacityBytes = lastSave[procs[p].id].cap
               /\ procs[p].v.Parameters = lastSave[procs[p].id].params
               /\ procs[p].v.path = Join(<<s.vol, procs[p].id>>)
               /\ procs[p].v.infoPath = Join(<<s.vol, procs[p].id, infoFileName>>)
               /\ procs[p].op = "getVolume" => procs[p].ret

\* C5's case: getVolume returns a record saved with capacity 42 and a
\* parameter.
C5_Witness ==
    \E p \in Procs :
        /\ Done(p, "getVolume") /\ procs[p].ret
        /\ lastSave[procs[p].id].state = "ok"
        /\ procs[p].v.capacityBytes = 42
        /\ procs[p].v.Parameters = [x \in {S_k} |-> S_v]

\* C6: getVolume of an identifier whose directory is missing, or whose
\* directory holds no .info.json, fails with NotFound, returns no record and
\* never enters load().
C6_MissingIsNotFound ==
    \A p \in Procs :
        (/\ Done(p, "getVolume")
         /\ \/ VolPathOf(procs[p].id) \notin dirs
            \/ InfoPathOf(procs[p].id) \notin DOMAIN files)
        => /\ procs[p].err.code = "NotFound"
           /\ ~procs[p].ret
           /\ ~procs[p].loaded

\* C6's cases, both at once: one caller found no directory, the other a
\* directory without its info file.
C6_Witness ==
    \E p, q \in Procs :
        /\ Done(p, "getVolume") /\ Done(q, "getVolume")
        /\ VolPathOf(procs[p].id) \notin dirs
        /\ procs[p].stat = "ENOENT" /\ procs[p].err.code = "NotFound"
        /\ VolPathOf(procs[q].id) \in dirs
        /\ InfoPathOf(procs[q].id) \notin DOMAIN files
        /\ procs[q].stat = "ENOENT" /\ procs[q].err.code = "NotFound"

\* C7: when a stat of getVolume fails with an error other than "does not
\* exist", getVolume fails with Internal.
C7_StatFailureIsInternal ==
    \A p \in Procs :
        (Done(p, "getVolume") /\ procs[p].stat \notin {"", "ENOENT"})
        => procs[p].err.code = "Internal"

\* C8: every failure of save() and of load() is an Internal status error,
\* and with an empty infoPath they fail without a file-system call.
C8_FailuresAreInternal ==
    \A p \in Procs :
        (procs[p].pc = "done" /\ (procs[p].op = "save" \/ procs[p].loaded))
        => /\ procs[p].err # NoErr => procs[p].err.code = "Internal"
           /\ procs[p].v.infoPath = EmptyStr =>
                 procs[p].err.code = "Internal" /\ procs[p].sys = 0

\* What load() on a fresh record bound to id's info file yields now
LoadNow(id) ==
    IF InfoPathOf(id) \in DOMAIN files
    THEN Decode([ZeroVol EXCEPT !.path = VolPathOf(id), !.infoPath = InfoPathOf(id)],
                files[InfoPathOf(id)])
    ELSE [err |-> StatusErr("Internal", "ENOENT"), v |-> ZeroVol]

\* C9: when save() calls for two different identifiers, whose directories
\* exist, have run side by side, each has failed only if the host failed it,
\* and load() of the identifier of each that succeeded yields that call's
\* own capacity and parameters.
C9_DistinctIdsIndependent ==
    \A p, q \in Procs :
        (/\ p # q
         /\ Done(p, "save") /\ Done(q, "save")
         /\ procs[p].id \in Ids /\ procs[q].id \in Ids
         /\ procs[p].id # procs[q].id
         /\ VolPathOf(procs[p].id) \in dirs /\ VolPathOf(procs[q].id) \in dirs)
        => /\ NoErrUnlessHostFault(p)
           /\ procs[p].err = NoErr =>
               /\ LoadNow(procs[p].id).err = NoErr
               /\ LoadNow(procs[p].id).v.capacityBytes = procs[p].v.capacityBytes
               /\ LoadNow(procs[p].id).v.Parameters = procs[p].v.Parameters
               /\ LoadNow(procs[p].id).v.Name = procs[p].id

\* C9's case: both calls have returned nil, for different identifiers and
\* with different values.
C9_Witness ==
    \E p, q \in Procs :
        /\ p # q
        /\ Done(p, "save") /\ Done(q, "save")
        /\ procs[p].id \in Ids /\ procs[q].id \in Ids /\ procs[p].id # procs[q].id
        /\ procs[p].err = NoErr /\ procs[q].err = NoErr
        /\ procs[p].v.capacityBytes # procs[q].v.capacityBytes

(***************************************************************************)
(* Properties of BeforeServe (under SpecServe)                             *)
(***************************************************************************)
\* C10: when BeforeServe returns nil, each of the data, device, mount and
\* volume roots is the resolved path of a directory that exists, and the
\* volume root is the resolved configured-or-default volume directory.
C10_RootsAreCanonical ==
    (bpc = "done" /\ berr = "") =>
        /\ \A f \in {"data", "dev", "mnt", "vol"} :
              s[f] \in dirs /\ Resolve(s[f]) = s[f]
        /\ s.vol = Resolve(IF LookupEnv("EnvVarVolDir").set
                              /\ LookupEnv("EnvVarVolDir").val # EmptyStr
                           THEN LookupEnv("EnvVarVolDir").val
                           ELSE Join(<<s.data, S_vol>>))

=============================================================================
